---- MODULE Spec2Model ----
(***************************************************************************)
(* CommunicationPipeline (src/remote/communication-pipeline.js): the       *)
(* outgoing/incoming dispatch engine, its listener registry and the        *)
(* diagnostics bridge, as a state machine.                                 *)
(*                                                                         *)
(* An async method is modelled by one action per resumption: the action    *)
(* that starts it runs the code up to the first await, and each action     *)
(* that settles an awaited handler runs the continuation up to the next    *)
(* await or to the end of the method.  Handlers are external functions:    *)
(* every invocation settles with any result the handler type allows        *)
(* (no envelope, an envelope, or a thrown error).                          *)
(***************************************************************************)
EXTENDS Integers, Sequences, FiniteSets, TLC

\* ---------------------------------------------------------------- bounds
MaxHandlers == 3
MaxCalls == 2
MaxEvents == 2
NumListeners == 2
MaxNow == 1
MaxDisposals == 2

\* ---------------------------------------------------------------- state
VARIABLES
    id,                    \* this.id
    log,                   \* whether this.log is set (a log sink was given)
    outgoingDataTemplate,  \* this.outgoingDataTemplate
    outgoingPipe,          \* this.outgoingPipe
    incomingPipe,          \* this.incomingPipe
    listeners,             \* this.listeners
    subscriptions,         \* per listener: how often onIncomingMessage is subscribed to "message"
    uid,                   \* the last identifier random.generateUid() gave out
    now,                   \* Date.now()
    calls,                 \* the pipeAsync activations, in the order they were started
    runs,                  \* the emitIncomingMessageAsync activations, in the order they were started
    messageEvents,         \* the "message" events the listeners raised
    snapshot,              \* the array getListeners() returned last, as its caller holds it
    disposals              \* how many times disposeAsync() was called

vars == <<id, log, outgoingDataTemplate, outgoingPipe, incomingPipe, listeners,
          subscriptions, uid, now, calls, runs, messageEvents, snapshot, disposals>>

\* ---------------------------------------------------------------- values
\* The value undefined, where an envelope or an object is expected.
Undefined == [kind |-> "undefined"]

\* A plain JavaScript object: the set of its <<key, value>> pairs.
Object(fields) == [kind |-> "object", fields |-> fields]
KeysOf(obj) == {p[1] : p \in obj.fields}

\* if (x): an envelope is an object, hence truthy; undefined is not.
Truthy(x) == x # Undefined

\* The payloads callers pass to pipeAsync, and the templates composing code sets.
CallerData == {Object({<<"b", 3>>, <<"c", 4>>}), Object({<<"c", 5>>})}
Templates == {Object({<<"a", 1>>, <<"b", 2>>})}

\* The envelopes handlers and listeners produce: IMessage with the optional
\* fields absent (0 for an absent identifier, -1 for an absent timestamp).
Envelope(n) ==
    [kind |-> "message", id |-> 0, source |-> 0, operationId |-> 0,
     timestamp |-> -1, data |-> Object({<<"r", n>>})]
Envelopes == {Envelope(1), Envelope(2)}

\* The errors handlers throw.
HandlerErrors == {"E1", "E2"}
NoOutgoingHandler == "No outgoing handler handles the message."
TypeError == "TypeError"

Listeners == 1..NumListeners

Range(s) == {s[k] : k \in 1..Len(s)}

\* ---------------------------------------------------------------- helpers
\* random.generateUid(): an identifier no earlier call gave out.
generateUid(last) == last + 1

\* Object.assign(target, source): the source's fields win; an undefined source
\* adds nothing.
assign(target, source) ==
    IF source = Undefined THEN target
    ELSE Object({p \in target.fields : p[1] \notin KeysOf(source)} \cup source.fields)

\* Mutant of generateOutgoingMessage: the envelope is identified by the
\* pipeline's id.
generateOutgoingMessageWithPipelineId(outgoingData) ==
    [kind |-> "message",
     data |-> assign(assign(Object({}), outgoingDataTemplate), outgoingData),
     id |-> id,
     source |-> id,
     operationId |-> generateUid(generateUid(uid)),
     timestamp |-> now]

\* Mutant of generateOutgoingMessage: the timestamp is the time the pipeline was
\* constructed.
generateOutgoingMessageStampedAtStart(outgoingData) ==
    [kind |-> "message",
     data |-> assign(assign(Object({}), outgoingDataTemplate), outgoingData),
     id |-> generateUid(uid),
     source |-> id,
     operationId |-> generateUid(generateUid(uid)),
     timestamp |-> 0]

\* Mutant of generateOutgoingMessage: the template is assigned over the caller's
\* data.
generateOutgoingMessageTemplateWins(outgoingData) ==
    [kind |-> "message",
     data |-> assign(assign(Object({}), outgoingData), outgoingDataTemplate),
     id |-> generateUid(uid),
     source |-> id,
     operationId |-> generateUid(generateUid(uid)),
     timestamp |-> now]

generateOutgoingMessage(outgoingData) ==
    [kind |-> "message",
     data |-> assign(assign(Object({}), outgoingDataTemplate), outgoingData),
     id |-> generateUid(uid),
     source |-> id,
     operationId |-> generateUid(generateUid(uid)),
     timestamp |-> now]

\* logMessage(message, text, severity): the line handed to the log sink, or the
\* TypeError of reading message.id when message is undefined.
logMessage(message, text, severity) ==
    IF ~log THEN [threw |-> FALSE, lines |-> <<>>]
    ELSE IF message = Undefined THEN [threw |-> TRUE, lines |-> <<>>]
    ELSE [threw |-> FALSE,
          lines |-> <<[severity |-> IF severity = "" THEN "info" ELSE severity,
                       id |-> message.id,
                       elapsed |-> IF message.timestamp >= 0
                                   THEN now - message.timestamp ELSE -1,
                       source |-> IF message.source # 0 /\ message.source # id
                                  THEN message.source ELSE 0,
                       operationId |-> message.operationId,
                       text |-> text]>>]

\* ---------------------------------------------------------------- composition
\* pipeline.outgoingPipe.push(handler): the k-th handler registered is handler k.
PushOutgoing ==
    /\ Len(outgoingPipe) < MaxHandlers
    /\ outgoingPipe' = Append(outgoingPipe, [kind |-> "outgoing", n |-> Len(outgoingPipe) + 1])
    /\ UNCHANGED <<id, log, outgoingDataTemplate, incomingPipe, listeners,
                   subscriptions, uid, now, calls, runs, messageEvents,
                   snapshot, disposals>>

PushIncoming ==
    /\ Len(incomingPipe) < MaxHandlers
    /\ incomingPipe' = Append(incomingPipe, [kind |-> "incoming", n |-> Len(incomingPipe) + 1])
    /\ UNCHANGED <<id, log, outgoingDataTemplate, outgoingPipe, listeners,
                   subscriptions, uid, now, calls, runs, messageEvents,
                   snapshot, disposals>>

\* pipeline.outgoingDataTemplate = template
SetOutgoingDataTemplate(template) ==
    /\ outgoingDataTemplate = Undefined
    /\ outgoingDataTemplate' = template
    /\ UNCHANGED <<id, log, outgoingPipe, incomingPipe, listeners, subscriptions,
                   uid, now, calls, runs, messageEvents,
                   snapshot, disposals>>

\* The clock advances.
Tick ==
    /\ now < MaxNow
    /\ now' = now + 1
    /\ UNCHANGED <<id, log, outgoingDataTemplate, outgoingPipe, incomingPipe, listeners,
                   subscriptions, uid, calls, runs, messageEvents,
                   snapshot, disposals>>

\* ---------------------------------------------------------------- pipeAsync
\* The frame of a pipeAsync activation: its locals (outgoingMsg, incomingMsg, the
\* position i of the for-of iterator), the argument data it was called with, the
\* handler invocations it made, the lines it logged, and how its promise settled;
\* and, for the record, how often disposeAsync had been called when it started.
NewCall(data, outgoingMsg) ==
    [pc |-> "start", data |-> data, outgoingMsg |-> outgoingMsg, incomingMsg |-> Undefined,
     i |-> 0, disposals |-> disposals,
     outCalls |-> <<>>, inCalls |-> <<>>, diags |-> <<>>, value |-> Undefined, error |-> ""]

\* A handler invocation: the handler, its arguments, and how it settled; and, for
\* the record, how many lines the activation had logged when it made it.
Invocation(handler, outgoingMsg, incomingMsg, logged) ==
    [handler |-> handler, outgoingMsg |-> outgoingMsg, incomingMsg |-> incomingMsg,
     logged |-> logged, state |-> "pending", result |-> Undefined, thrown |-> ""]

\* The pending invocation, the last one made, returns m or throws err.
Returns(invocations, m) ==
    [invocations EXCEPT ![Len(invocations)].state = "returned",
                        ![Len(invocations)].result = m]

Throws(invocations, err) ==
    [invocations EXCEPT ![Len(invocations)].state = "threw",
                        ![Len(invocations)].thrown = err]

\* throw err, out of the async function: its promise rejects with err.
Rejected(frame, err) == [frame EXCEPT !.pc = "rejected", !.error = err]

\* this.logMessage(message, text, severity), where message is known to be an object.
Logged(frame, message, text, severity) ==
    [frame EXCEPT !.diags = @ \o logMessage(message, text, severity).lines]

\* Mutant of incomingArguments: the outgoing envelope is kept on the pipeline, where
\* the call started last overwrites it.
incomingArgumentsOfLatestCall(call) ==
    [outgoingMsg |-> calls[Len(calls)].outgoingMsg, incomingMsg |-> call.incomingMsg]

\* asyncHandler(this, outgoingMsg, incomingMsg): what a pipeAsync call passes.
incomingArguments(call) ==
    [outgoingMsg |-> call.outgoingMsg, incomingMsg |-> call.incomingMsg]

\* Mutant of returnValue: the payload of the wrong envelope.
returnValueOfOutgoing(call) == call.outgoingMsg.data

\* return incomingMsg.data;
returnValue(call) == call.incomingMsg.data

\* The second for-of loop from the iterator position idx, and what follows it.
incomingPhase(call, idx) ==
    IF idx <= Len(incomingPipe)
    THEN [call EXCEPT !.pc = "incoming", !.i = idx,
                      !.inCalls = Append(@, Invocation(incomingPipe[idx],
                                                       incomingArguments(call).outgoingMsg,
                                                       incomingArguments(call).incomingMsg,
                                                       Len(call.diags)))]
    ELSE LET r == logMessage(call.incomingMsg, "Incoming message processing completed.", "")
         IN  IF r.threw \/ call.incomingMsg = Undefined
             THEN Rejected(call, TypeError)
             ELSE [call EXCEPT !.pc = "resolved", !.value = returnValue(call),
                               !.diags = @ \o r.lines]

\* Mutant of afterOutgoingPhase: the check for a missing response is left out.
afterOutgoingPhaseUnchecked(call) ==
    incomingPhase(Logged(call, call.incomingMsg, "", ""), 1)

\* Mutant of afterOutgoingPhase: with no response the call neither throws nor
\* returns, it waits for a response that nothing will deliver.
afterOutgoingPhaseStalls(call) ==
    IF ~Truthy(call.incomingMsg)
    THEN [call EXCEPT !.pc = "stalled"]
    ELSE incomingPhase(Logged(call, call.incomingMsg, "", ""), 1)

\* if (!incomingMsg) throw ...; this.logMessage(incomingMsg); then the incoming phase.
afterOutgoingPhase(call) ==
    IF ~Truthy(call.incomingMsg)
    THEN Rejected(Logged(call, call.outgoingMsg, NoOutgoingHandler, "error"), NoOutgoingHandler)
    ELSE incomingPhase(Logged(call, call.incomingMsg, "", ""), 1)

\* The first for-of loop from the iterator position idx, and what follows it.
outgoingPhase(call, idx) ==
    IF idx <= Len(outgoingPipe)
    THEN [call EXCEPT !.pc = "outgoing", !.i = idx,
                      !.outCalls = Append(@, Invocation(outgoingPipe[idx],
                                                        call.outgoingMsg, Undefined,
                                                        Len(call.diags)))]
    ELSE afterOutgoingPhase(call)

\* Mutant of outgoingReturned: the loop has no break, every handler is probed.
outgoingReturnedWithoutBreak(call, m) ==
    outgoingPhase([call EXCEPT !.incomingMsg = m, !.outCalls = Returns(@, m)], call.i + 1)

\* Mutant of outgoingReturned: the engine stamps the call's operationId on the
\* response before handing it on.
outgoingReturnedCorrelated(call, m) ==
    LET stamped == IF Truthy(m)
                   THEN [m EXCEPT !.operationId = call.outgoingMsg.operationId] ELSE m
        c1 == [call EXCEPT !.incomingMsg = stamped, !.outCalls = Returns(@, m)]
    IN  IF Truthy(m) THEN afterOutgoingPhase(c1) ELSE outgoingPhase(c1, call.i + 1)

\* incomingMsg = await asyncHandler(this, outgoingMsg); if (incomingMsg) break;
outgoingReturned(call, m) ==
    LET c1 == [call EXCEPT !.incomingMsg = m, !.outCalls = Returns(@, m)]
    IN  IF Truthy(m) THEN afterOutgoingPhase(c1) ELSE outgoingPhase(c1, call.i + 1)

\* Mutant of outgoingThrew: the error is logged and not thrown again, the loop
\* goes on to the next handler.
outgoingThrewSwallowed(call, err) ==
    outgoingPhase(Logged([call EXCEPT !.outCalls = Throws(@, err)],
                         call.outgoingMsg, err, "error"), call.i + 1)

\* catch (err) { this.logMessage(outgoingMsg, ..., "error"); throw err; }
outgoingThrew(call, err) ==
    Rejected(Logged([call EXCEPT !.outCalls = Throws(@, err)],
                    call.outgoingMsg, err, "error"), err)

\* Mutant of incomingReturned: the incoming loop stops at the first envelope, as
\* the outgoing loop does.
incomingReturnedFirstWins(call, m) ==
    incomingPhase([call EXCEPT !.incomingMsg = m, !.inCalls = Returns(@, m)],
                  IF Truthy(m) THEN Len(incomingPipe) + 1 ELSE call.i + 1)

\* incomingMsg = await asyncHandler(this, outgoingMsg, incomingMsg);
incomingReturned(call, m) ==
    incomingPhase([call EXCEPT !.incomingMsg = m, !.inCalls = Returns(@, m)],
                  call.i + 1)

\* catch (err) { this.logMessage(incomingMsg, ..., "error"); throw err; }
incomingThrew(call, err) ==
    LET c1 == [call EXCEPT !.inCalls = Throws(@, err)]
        r == logMessage(call.incomingMsg, err, "error")
    IN  IF r.threw THEN Rejected(c1, TypeError)
        ELSE Rejected([c1 EXCEPT !.diags = @ \o r.lines], err)

\* What a handler may return: no envelope, or an envelope.
HandlerResults == {Undefined} \cup Envelopes

\* pipeAsync(data), up to its first await (or to its end, with no outgoing handler).
pipeAsync(data) ==
    /\ Len(calls) < MaxCalls
    /\ LET outgoingMsg == generateOutgoingMessage(data)
       IN  calls' = Append(calls,
                           outgoingPhase(Logged(NewCall(data, outgoingMsg), outgoingMsg, "", ""), 1))
    /\ uid' = generateUid(generateUid(uid))
    /\ UNCHANGED <<id, log, outgoingDataTemplate, outgoingPipe, incomingPipe, listeners,
                   subscriptions, now, runs, messageEvents,
                   snapshot, disposals>>

\* The outgoing handler call c awaits returns m; the call runs on to its next await.
OutgoingHandlerReturns(c, m) ==
    /\ calls[c].pc = "outgoing"
    /\ calls' = [calls EXCEPT ![c] = outgoingReturned(calls[c], m)]
    /\ UNCHANGED <<id, log, outgoingDataTemplate, outgoingPipe, incomingPipe, listeners,
                   subscriptions, uid, now, runs, messageEvents,
                   snapshot, disposals>>

OutgoingHandlerThrows(c, err) ==
    /\ calls[c].pc = "outgoing"
    /\ calls' = [calls EXCEPT ![c] = outgoingThrew(calls[c], err)]
    /\ UNCHANGED <<id, log, outgoingDataTemplate, outgoingPipe, incomingPipe, listeners,
                   subscriptions, uid, now, runs, messageEvents,
                   snapshot, disposals>>

IncomingHandlerReturns(c, m) ==
    /\ calls[c].pc = "incoming"
    /\ calls' = [calls EXCEPT ![c] = incomingReturned(calls[c], m)]
    /\ UNCHANGED <<id, log, outgoingDataTemplate, outgoingPipe, incomingPipe, listeners,
                   subscriptions, uid, now, runs, messageEvents,
                   snapshot, disposals>>

IncomingHandlerThrows(c, err) ==
    /\ calls[c].pc = "incoming"
    /\ calls' = [calls EXCEPT ![c] = incomingThrew(calls[c], err)]
    /\ UNCHANGED <<id, log, outgoingDataTemplate, outgoingPipe, incomingPipe, listeners,
                   subscriptions, uid, now, runs, messageEvents,
                   snapshot, disposals>>

\* ---------------------------------------------------------------- listeners
\* this.listeners.findIndex((item) => listener === item), 0 when there is none
findIndex(listener) ==
    IF listener \in Range(listeners)
    THEN CHOOSE k \in 1..Len(listeners) :
             /\ listeners[k] = listener
             /\ \A j \in 1..(k - 1) : listeners[j] # listener
    ELSE 0

\* this.listeners.splice(index, 1)
splice(index) ==
    [k \in 1..(Len(listeners) - 1) |-> IF k < index THEN listeners[k] ELSE listeners[k + 1]]

\* listener.on("message", handler): one more subscription of the handler.
on(listener) == [subscriptions EXCEPT ![listener] = @ + 1]

\* listener.off("message", handler): one subscription of the handler less, if any.
off(listener) == [subscriptions EXCEPT ![listener] = IF @ > 0 THEN @ - 1 ELSE 0]

\* Mutant of addListener: the listener is subscribed and recorded without looking
\* it up first.
addListenerUnchecked(listener) ==
    /\ subscriptions' = on(listener)
    /\ listeners' = Append(listeners, listener)
    /\ UNCHANGED <<id, log, outgoingDataTemplate, outgoingPipe, incomingPipe,
                   uid, now, calls, runs, messageEvents,
                   snapshot, disposals>>

addListener(listener) ==
    /\ IF findIndex(listener) = 0
       THEN /\ subscriptions' = on(listener)
            /\ listeners' = Append(listeners, listener)
       ELSE UNCHANGED <<listeners, subscriptions>>
    /\ UNCHANGED <<id, log, outgoingDataTemplate, outgoingPipe, incomingPipe,
                   uid, now, calls, runs, messageEvents,
                   snapshot, disposals>>

\* Mutant of removeListener: the record is dropped, the forwarding handler stays
\* subscribed.
removeListenerStaysSubscribed(listener) ==
    /\ IF findIndex(listener) > 0
       THEN listeners' = splice(findIndex(listener))
       ELSE UNCHANGED listeners
    /\ UNCHANGED <<id, log, outgoingDataTemplate, outgoingPipe, incomingPipe, subscriptions,
                   uid, now, calls, runs, messageEvents,
                   snapshot, disposals>>

\* Another mutant of removeListener: splice(index, 1) without the index check,
\* which for index -1 removes the last listener.
removeListenerUnchecked(listener) ==
    /\ IF listeners # <<>>
       THEN LET index == IF findIndex(listener) > 0 THEN findIndex(listener)
                         ELSE Len(listeners)
            IN  /\ listeners' = splice(index)
                /\ subscriptions' = off(listeners[index])
       ELSE UNCHANGED <<listeners, subscriptions>>
    /\ UNCHANGED <<id, log, outgoingDataTemplate, outgoingPipe, incomingPipe,
                   uid, now, calls, runs, messageEvents,
                   snapshot, disposals>>

removeListener(listener) ==
    /\ IF findIndex(listener) > 0
       THEN /\ listeners' = splice(findIndex(listener))
            /\ subscriptions' = off(listeners[findIndex(listener)])
       ELSE UNCHANGED <<listeners, subscriptions>>
    /\ UNCHANGED <<id, log, outgoingDataTemplate, outgoingPipe, incomingPipe,
                   uid, now, calls, runs, messageEvents,
                   snapshot, disposals>>

\* ---------------------------------------------------------------- getListeners
\* An array as a caller holds it: its items, and whether it is the very array
\* object this.listeners refers to (a write to it is then a write to the registry).
\* Mutant of ArrayFrom: the registry array itself is handed out.
TheArrayItself(items) == [kind |-> "array", registry |-> TRUE, items |-> items]

\* Array.from(items): a new array with the same items in the same order.
ArrayFrom(items) == [kind |-> "array", registry |-> FALSE, items |-> items]

\* getListeners()
getListeners ==
    /\ snapshot' = ArrayFrom(listeners)
    /\ UNCHANGED <<id, log, outgoingDataTemplate, outgoingPipe, incomingPipe, listeners,
                   subscriptions, uid, now, calls, runs, messageEvents, disposals>>

\* The caller of getListeners() writes to the array it got: the write lands in
\* that array, and in the registry only if the array is the registry's.
WriteReturned(items) ==
    /\ snapshot # Undefined
    /\ snapshot' = [snapshot EXCEPT !.items = items]
    /\ listeners' = IF snapshot.registry THEN items ELSE listeners
    /\ UNCHANGED <<id, log, outgoingDataTemplate, outgoingPipe, incomingPipe,
                   subscriptions, uid, now, calls, runs, messageEvents, disposals>>

\* returned.push(listener)
ReturnedPush(listener) ==
    /\ snapshot # Undefined
    /\ Len(snapshot.items) <= NumListeners
    /\ WriteReturned(Append(snapshot.items, listener))

\* returned.splice(index, 1)
ReturnedSplice(index) ==
    /\ snapshot # Undefined
    /\ index \in 1..Len(snapshot.items)
    /\ WriteReturned([k \in 1..(Len(snapshot.items) - 1) |->
                          IF k < index THEN snapshot.items[k] ELSE snapshot.items[k + 1]])

\* returned.reverse()
ReturnedReverse ==
    /\ snapshot # Undefined
    /\ Len(snapshot.items) >= 2
    /\ WriteReturned([k \in 1..Len(snapshot.items) |->
                          snapshot.items[Len(snapshot.items) + 1 - k]])

\* ---------------------------------------------------------------- emitIncomingMessageAsync
\* The frame of an emitIncomingMessageAsync activation: its parameter incomingMsg,
\* the position i of the for-of iterator, the handler invocations it made, the
\* lines it logged, the payloads it emitted as "data", and how its promise settled.
NewRun(incomingMsg, event) ==
    [pc |-> "start", incomingMsg |-> incomingMsg, i |-> 0, event |-> event,
     inCalls |-> <<>>, diags |-> <<>>, emitted |-> <<>>, error |-> ""]

\* asyncHandler(this, undefined, incomingMsg): what emitIncomingMessageAsync passes.
unsolicitedArguments(run) ==
    [outgoingMsg |-> Undefined, incomingMsg |-> run.incomingMsg]

\* The for-of loop from the iterator position idx, and what follows it.
unsolicitedPhase(run, idx) ==
    IF idx <= Len(incomingPipe)
    THEN [run EXCEPT !.pc = "incoming", !.i = idx,
                     !.inCalls = Append(@, Invocation(incomingPipe[idx],
                                                      unsolicitedArguments(run).outgoingMsg,
                                                      unsolicitedArguments(run).incomingMsg,
                                                      Len(run.diags)))]
    ELSE LET r == logMessage(run.incomingMsg, "Incoming message processing completed.", "")
         IN  IF r.threw \/ run.incomingMsg = Undefined
             THEN Rejected(run, TypeError)
             ELSE [run EXCEPT !.pc = "resolved", !.diags = @ \o r.lines,
                              !.emitted = Append(@, run.incomingMsg.data)]

\* emitIncomingMessageAsync(incomingMsg), up to its first await.
emitIncomingMessageAsync(incomingMsg, event) ==
    unsolicitedPhase(Logged(NewRun(incomingMsg, event), incomingMsg, "", ""), 1)

\* Mutant of unsolicitedReturned: the handler's result is not assigned.
unsolicitedReturnedDiscarded(run, m) ==
    unsolicitedPhase([run EXCEPT !.inCalls = Returns(@, m)], run.i + 1)

\* incomingMsg = await asyncHandler(this, undefined, incomingMsg);
unsolicitedReturned(run, m) ==
    unsolicitedPhase([run EXCEPT !.incomingMsg = m, !.inCalls = Returns(@, m)],
                     run.i + 1)

\* catch (err) { this.logMessage(incomingMsg, ..., "error"); throw err; }
unsolicitedThrew(run, err) ==
    LET r1 == [run EXCEPT !.inCalls = Throws(@, err)]
        r == logMessage(run.incomingMsg, err, "error")
    IN  IF r.threw THEN Rejected(r1, TypeError)
        ELSE Rejected([r1 EXCEPT !.diags = @ \o r.lines], err)

\* this.onIncomingMessage, called once per subscription when the listener raises
\* "message": each call starts one emitIncomingMessageAsync activation.
onIncomingMessage(count, incomingMsg, event) ==
    [k \in 1..count |-> emitIncomingMessageAsync(incomingMsg, event)]

\* A listener raises "message" with an envelope.
ListenerMessage(listener, incomingMsg) ==
    /\ Len(messageEvents) < MaxEvents
    /\ messageEvents' = Append(messageEvents,
                               [listener |-> listener, message |-> incomingMsg,
                                registered |-> listener \in Range(listeners),
                                disposals |-> disposals])
    /\ runs' = runs \o onIncomingMessage(subscriptions[listener], incomingMsg,
                                         Len(messageEvents) + 1)
    /\ UNCHANGED <<id, log, outgoingDataTemplate, outgoingPipe, incomingPipe, listeners,
                   subscriptions, uid, now, calls,
                   snapshot, disposals>>

UnsolicitedHandlerReturns(r, m) ==
    /\ runs[r].pc = "incoming"
    /\ runs' = [runs EXCEPT ![r] = unsolicitedReturned(runs[r], m)]
    /\ UNCHANGED <<id, log, outgoingDataTemplate, outgoingPipe, incomingPipe, listeners,
                   subscriptions, uid, now, calls, messageEvents,
                   snapshot, disposals>>

UnsolicitedHandlerThrows(r, err) ==
    /\ runs[r].pc = "incoming"
    /\ runs' = [runs EXCEPT ![r] = unsolicitedThrew(runs[r], err)]
    /\ UNCHANGED <<id, log, outgoingDataTemplate, outgoingPipe, incomingPipe, listeners,
                   subscriptions, uid, now, calls, messageEvents,
                   snapshot, disposals>>

\* ---------------------------------------------------------------- disposeAsync
\* Mutant of disposeAsync: disposal detaches the listeners.
disposeAsyncDetaching ==
    /\ disposals < MaxDisposals
    /\ disposals' = disposals + 1
    /\ listeners' = <<>>
    /\ subscriptions' = [l \in Listeners |-> 0]
    /\ UNCHANGED <<id, log, outgoingDataTemplate, outgoingPipe, incomingPipe,
                   uid, now, calls, runs, messageEvents, snapshot>>

\* disposeAsync(): async disposeAsync() { return; }
disposeAsync ==
    /\ disposals < MaxDisposals
    /\ disposals' = disposals + 1
    /\ UNCHANGED <<id, log, outgoingDataTemplate, outgoingPipe, incomingPipe, listeners,
                   subscriptions, uid, now, calls, runs, messageEvents, snapshot>>

\* ---------------------------------------------------------------- specifications
\* After the constructor: no handler, no listener, no template; the log sink is
\* the constructor's argument, given or not.
Init ==
    /\ id = generateUid(0)
    /\ log \in BOOLEAN
    /\ outgoingDataTemplate = Undefined
    /\ outgoingPipe = <<>>
    /\ incomingPipe = <<>>
    /\ listeners = <<>>
    /\ subscriptions = [l \in Listeners |-> 0]
    /\ uid = generateUid(0)
    /\ now = 0
    /\ calls = <<>>
    /\ runs = <<>>
    /\ messageEvents = <<>>
    /\ snapshot = Undefined
    /\ disposals = 0

Next ==
    \/ PushOutgoing
    \/ PushIncoming
    \/ \E template \in Templates : SetOutgoingDataTemplate(template)
    \/ Tick
    \/ \E data \in CallerData : pipeAsync(data)
    \/ \E c \in 1..Len(calls), m \in HandlerResults : OutgoingHandlerReturns(c, m)
    \/ \E c \in 1..Len(calls), err \in HandlerErrors : OutgoingHandlerThrows(c, err)
    \/ \E c \in 1..Len(calls), m \in HandlerResults : IncomingHandlerReturns(c, m)
    \/ \E c \in 1..Len(calls), err \in HandlerErrors : IncomingHandlerThrows(c, err)
    \/ \E listener \in Listeners : addListener(listener)
    \/ \E listener \in Listeners : removeListener(listener)
    \/ \E listener \in Listeners, m \in Envelopes : ListenerMessage(listener, m)
    \/ \E r \in 1..Len(runs), m \in HandlerResults : UnsolicitedHandlerReturns(r, m)
    \/ \E r \in 1..Len(runs), err \in HandlerErrors : UnsolicitedHandlerThrows(r, err)
    \/ getListeners
    \/ \E listener \in Listeners : ReturnedPush(listener)
    \/ \E index \in 1..(NumListeners + 1) : ReturnedSplice(index)
    \/ ReturnedReverse
    \/ disposeAsync

Spec == Init /\ [][Next]_vars

\* The operations of the pipeline fall into groups that share no state but the
\* incoming handler sequence: outbound calls (calls), the listener registry and
\* unsolicited delivery (listeners, subscriptions, runs), and message
\* construction (template, clock).  Each specification below lets the
\* environment use one group, which keeps the state space within TLC's reach
\* at the bounds above and at larger ones.

\* One outbound call on a pipeline that composing code keeps extending, also
\* while the call is in flight.
NextDispatch ==
    \/ PushOutgoing
    \/ PushIncoming
    \/ calls = <<>> /\ \E data \in CallerData : pipeAsync(data)
    \/ \E c \in 1..Len(calls), m \in HandlerResults : OutgoingHandlerReturns(c, m)
    \/ \E c \in 1..Len(calls), err \in HandlerErrors : OutgoingHandlerThrows(c, err)
    \/ \E c \in 1..Len(calls), m \in HandlerResults : IncomingHandlerReturns(c, m)
    \/ \E c \in 1..Len(calls), err \in HandlerErrors : IncomingHandlerThrows(c, err)

SpecDispatch == Init /\ [][NextDispatch]_vars

\* Concurrent outbound calls on a composed pipeline: one outgoing handler and two
\* incoming handlers were pushed after construction, and the handler sequences
\* are left alone while calls are in flight.
InitComposed ==
    /\ id = generateUid(0)
    /\ log \in BOOLEAN
    /\ outgoingDataTemplate = Undefined
    /\ outgoingPipe = <<[kind |-> "outgoing", n |-> 1]>>
    /\ incomingPipe = <<[kind |-> "incoming", n |-> 1], [kind |-> "incoming", n |-> 2]>>
    /\ listeners = <<>>
    /\ subscriptions = [l \in Listeners |-> 0]
    /\ uid = generateUid(0)
    /\ now = 0
    /\ calls = <<>>
    /\ runs = <<>>
    /\ messageEvents = <<>>
    /\ snapshot = Undefined
    /\ disposals = 0

NextConcurrent ==
    \/ \E data \in CallerData : pipeAsync(data)
    \/ \E c \in 1..Len(calls), m \in HandlerResults : OutgoingHandlerReturns(c, m)
    \/ \E c \in 1..Len(calls), err \in HandlerErrors : OutgoingHandlerThrows(c, err)
    \/ \E c \in 1..Len(calls), m \in HandlerResults : IncomingHandlerReturns(c, m)
    \/ \E c \in 1..Len(calls), err \in HandlerErrors : IncomingHandlerThrows(c, err)

SpecConcurrent == InitComposed /\ [][NextConcurrent]_vars

\* The listener registry: listeners come and go and raise "message" events; the
\* pipeline has no incoming handler or one.
NextListeners ==
    \/ incomingPipe = <<>> /\ PushIncoming
    \/ \E listener \in Listeners : addListener(listener)
    \/ \E listener \in Listeners : removeListener(listener)
    \/ \E listener \in Listeners : ListenerMessage(listener, Envelope(1))
    \/ \E r \in 1..Len(runs), m \in HandlerResults : UnsolicitedHandlerReturns(r, m)
    \/ \E r \in 1..Len(runs), err \in HandlerErrors : UnsolicitedHandlerThrows(r, err)

SpecListeners == Init /\ [][NextListeners]_vars

\* Unsolicited delivery: one "message" event, on a pipeline that composing code
\* keeps extending, also while the delivery is in flight.
NextUnsolicited ==
    \/ PushIncoming
    \/ \E listener \in Listeners : addListener(listener)
    \/ \E listener \in Listeners : removeListener(listener)
    \/ messageEvents = <<>> /\ \E listener \in Listeners, m \in Envelopes :
                                   ListenerMessage(listener, m)
    \/ \E r \in 1..Len(runs), m \in HandlerResults : UnsolicitedHandlerReturns(r, m)
    \/ \E r \in 1..Len(runs), err \in HandlerErrors : UnsolicitedHandlerThrows(r, err)

SpecUnsolicited == Init /\ [][NextUnsolicited]_vars

\* Correlation: one outbound call on the composed pipeline, whose handlers may
\* also answer with envelopes that echo the call's operationId.
Replies(call) ==
    {[m EXCEPT !.operationId = call.outgoingMsg.operationId] : m \in Envelopes}

NextCorrelation ==
    \/ calls = <<>> /\ \E data \in CallerData : pipeAsync(data)
    \/ \E c \in 1..Len(calls) : \E m \in HandlerResults \cup Replies(calls[c]) :
           OutgoingHandlerReturns(c, m)
    \/ \E c \in 1..Len(calls), err \in HandlerErrors : OutgoingHandlerThrows(c, err)
    \/ \E c \in 1..Len(calls) : \E m \in HandlerResults \cup Replies(calls[c]) :
           IncomingHandlerReturns(c, m)
    \/ \E c \in 1..Len(calls), err \in HandlerErrors : IncomingHandlerThrows(c, err)

SpecCorrelation == InitComposed /\ [][NextCorrelation]_vars

\* Message construction: composing code sets the payload template, the clock
\* advances, and callers start outbound calls; the pipeline has no handler, so
\* every call is over once its outgoing envelope is built.
NextMessage ==
    \/ \E template \in Templates : SetOutgoingDataTemplate(template)
    \/ Tick
    \/ \E data \in CallerData : pipeAsync(data)

SpecMessage == Init /\ [][NextMessage]_vars

\* Snapshots of the registry: listeners come and go, callers take the list of
\* listeners and write to the array they got.
NextSnapshot ==
    \/ \E listener \in Listeners : addListener(listener)
    \/ \E listener \in Listeners : removeListener(listener)
    \/ getListeners
    \/ \E listener \in Listeners : ReturnedPush(listener)
    \/ \E index \in 1..(NumListeners + 1) : ReturnedSplice(index)
    \/ ReturnedReverse

SpecSnapshot == Init /\ [][NextSnapshot]_vars

\* Disposal: the pipeline is composed, listeners are added, disposeAsync is
\* called any number of times at any point, and one outbound call and one
\* "message" event take place before, between or after the disposals.
NextDispose ==
    \/ outgoingPipe = <<>> /\ PushOutgoing
    \/ incomingPipe = <<>> /\ PushIncoming
    \/ \E listener \in Listeners : addListener(listener)
    \/ disposeAsync
    \/ calls = <<>> /\ \E data \in CallerData : pipeAsync(data)
    \/ \E c \in 1..Len(calls), m \in HandlerResults : OutgoingHandlerReturns(c, m)
    \/ \E c \in 1..Len(calls), err \in HandlerErrors : OutgoingHandlerThrows(c, err)
    \/ \E c \in 1..Len(calls), m \in HandlerResults : IncomingHandlerReturns(c, m)
    \/ \E c \in 1..Len(calls), err \in HandlerErrors : IncomingHandlerThrows(c, err)
    \/ messageEvents = <<>> /\ \E listener \in Listeners : ListenerMessage(listener, Envelope(1))
    \/ \E r \in 1..Len(runs), m \in HandlerResults : UnsolicitedHandlerReturns(r, m)
    \/ \E r \in 1..Len(runs), err \in HandlerErrors : UnsolicitedHandlerThrows(r, err)

SpecDispose == Init /\ [][NextDispose]_vars

\* Termination: concurrent outbound calls on the composed pipeline, whose handler
\* sequences are left alone, with handlers that all settle: an invocation a call
\* awaits does not stay pending forever.  Which envelope or error a handler
\* settles with makes no difference to whether the call goes on, so one of each
\* is enough here.
HandlerSettles(c) ==
    \/ \E m \in {Undefined, Envelope(1)} : OutgoingHandlerReturns(c, m)
    \/ OutgoingHandlerThrows(c, "E1")
    \/ \E m \in {Undefined, Envelope(1)} : IncomingHandlerReturns(c, m)
    \/ IncomingHandlerThrows(c, "E1")

NextTermination ==
    \/ \E data \in CallerData : pipeAsync(data)
    \/ \E c \in 1..Len(calls) : HandlerSettles(c)

SpecTermination ==
    /\ InitComposed
    /\ [][NextTermination]_vars
    /\ \A c \in 1..MaxCalls : WF_vars(c <= Len(calls) /\ HandlerSettles(c))

\* Observation: one outbound call and one "message" event on the composed
\* pipeline, with or without a log sink.
NextObservation ==
    \/ \E listener \in Listeners : addListener(listener)
    \/ calls = <<>> /\ \E data \in CallerData : pipeAsync(data)
    \/ \E c \in 1..Len(calls), m \in HandlerResults : OutgoingHandlerReturns(c, m)
    \/ \E c \in 1..Len(calls), err \in HandlerErrors : OutgoingHandlerThrows(c, err)
    \/ \E c \in 1..Len(calls), m \in HandlerResults : IncomingHandlerReturns(c, m)
    \/ \E c \in 1..Len(calls), err \in HandlerErrors : IncomingHandlerThrows(c, err)
    \/ messageEvents = <<>> /\ \E listener \in Listeners, m \in Envelopes :
                                   ListenerMessage(listener, m)
    \/ \E r \in 1..Len(runs), m \in HandlerResults : UnsolicitedHandlerReturns(r, m)
    \/ \E r \in 1..Len(runs), err \in HandlerErrors : UnsolicitedHandlerThrows(r, err)

SpecObservation == InitComposed /\ [][NextObservation]_vars

\* ---------------------------------------------------------------- claims
Calls == 1..Len(calls)
Runs == 1..Len(runs)

NoResponse(invocation) == invocation.state = "returned" /\ ~Truthy(invocation.result)
Responded(invocation) == invocation.state = "returned" /\ Truthy(invocation.result)

\* C1: the k-th outgoing handler a pipeAsync call invokes is the k-th registered
\* one; when it is invoked every earlier invocation of the call has settled, and
\* none of them returned a response envelope (after a response the call invokes
\* no further outgoing handler).
C1_OutgoingFirstResponderWins ==
    \A c \in Calls :
        LET o == calls[c].outCalls
        IN  /\ Len(o) <= Len(outgoingPipe)
            /\ \A k \in 1..Len(o) :
                   /\ o[k].handler = outgoingPipe[k]
                   /\ o[k].outgoingMsg = calls[c].outgoingMsg
                   /\ k < Len(o) => o[k].state # "pending" /\ ~Responded(o[k])
                   /\ o[k].state = "pending" => calls[c].pc = "outgoing"

\* C1 witness: the first handler declined, the second responded, and the third
\* registered handler was not invoked by the call, which went on.
C1_Witness ==
    \E c \in Calls :
        /\ Len(outgoingPipe) = 3
        /\ Len(calls[c].outCalls) = 2
        /\ NoResponse(calls[c].outCalls[1])
        /\ Responded(calls[c].outCalls[2])
        /\ calls[c].pc = "resolved"

\* C2: when an outgoing handler throws E, it is the last outgoing handler the
\* call invokes, the call invokes no incoming handler, and it rejects with E.
C2_OutgoingThrowAborts ==
    \A c \in Calls :
        \A k \in 1..Len(calls[c].outCalls) :
            calls[c].outCalls[k].state = "threw" =>
                /\ k = Len(calls[c].outCalls)
                /\ calls[c].inCalls = <<>>
                /\ calls[c].pc = "rejected"
                /\ calls[c].error = calls[c].outCalls[k].thrown

\* C2 witness: the second of three outgoing handlers threw E2 after the first
\* declined, with an incoming handler registered.
C2_Witness ==
    \E c \in Calls :
        /\ Len(outgoingPipe) = 3
        /\ Len(incomingPipe) >= 1
        /\ Len(calls[c].outCalls) = 2
        /\ NoResponse(calls[c].outCalls[1])
        /\ calls[c].outCalls[2].state = "threw"
        /\ calls[c].outCalls[2].thrown = "E2"
        /\ calls[c].error = "E2"

\* C3: when the outgoing phase of a call is over and every outgoing handler it
\* invoked returned no response (also when it invoked none), the call is
\* rejected with the "No outgoing handler handles the message." error and has
\* invoked no incoming handler.
C3_UnhandledRejects ==
    \A c \in Calls :
        (/\ calls[c].pc # "outgoing"
         /\ \A k \in 1..Len(calls[c].outCalls) : NoResponse(calls[c].outCalls[k]))
        => /\ calls[c].pc = "rejected"
           /\ calls[c].error = NoOutgoingHandler
           /\ calls[c].inCalls = <<>>

\* C3 witness: two outgoing handlers both declined, with an incoming handler
\* registered.
C3_Witness ==
    \E c \in Calls :
        /\ Len(calls[c].outCalls) = 2
        /\ \A k \in 1..2 : NoResponse(calls[c].outCalls[k])
        /\ Len(incomingPipe) >= 1
        /\ calls[c].pc = "rejected"

Settled(frame) == frame.pc \in {"resolved", "rejected"}

Last(invocations) == invocations[Len(invocations)]

\* The call got a response envelope from an outgoing handler.
ObtainedResponse(call) == call.outCalls # <<>> /\ Responded(Last(call.outCalls))

NoHandlerThrew(call) ==
    /\ \A k \in 1..Len(call.outCalls) : call.outCalls[k].state # "threw"
    /\ \A k \in 1..Len(call.inCalls) : call.inCalls[k].state # "threw"

\* The incoming handler invocations of a call, against the handler sequence: the
\* k-th invocation is of the k-th registered handler, made after the earlier ones
\* returned, with the call's outgoing envelope and with the response (k = 1) or
\* the envelope the invocation before it returned.
IncomingChain(call, pipe) ==
    /\ Len(call.inCalls) <= Len(pipe)
    /\ call.inCalls # <<>> => ObtainedResponse(call)
    /\ \A k \in 1..Len(call.inCalls) :
           /\ call.inCalls[k].handler = pipe[k]
           /\ call.inCalls[k].outgoingMsg = call.outgoingMsg
           /\ k < Len(call.inCalls) => call.inCalls[k].state = "returned"
           /\ call.inCalls[k].incomingMsg =
                  IF k = 1 THEN Last(call.outCalls).result ELSE call.inCalls[k - 1].result

\* Call c settles in this step, having obtained a response and with no handler
\* having thrown.
CompletesIncomingPhase(c) ==
    /\ c > Len(calls) \/ ~Settled(calls[c])
    /\ Settled(calls'[c])
    /\ ObtainedResponse(calls'[c])
    /\ NoHandlerThrew(calls'[c])

\* C4: in every pipeAsync call the incoming handler invocations follow the
\* registration order, each after the previous one returned, the first with
\* the winning outgoing handler's response and each later one with the envelope
\* the one before returned, all with the call's outgoing envelope; and a call
\* that obtained a response and in which no handler threw has, when it settles,
\* invoked every registered incoming handler exactly once.
C4_IncomingAllRunInOrder ==
    [][\A c \in 1..Len(calls') :
           /\ IncomingChain(calls'[c], incomingPipe')
           /\ CompletesIncomingPhase(c) =>
                  Len(calls'[c].inCalls) = Len(incomingPipe')]_vars

\* C4 witness: a resolved call that ran three incoming handlers, the first two of
\* which replaced the envelope.
C4_Witness ==
    \E c \in Calls :
        /\ calls[c].pc = "resolved"
        /\ Len(calls[c].inCalls) = 3
        /\ Len(incomingPipe) = 3
        /\ calls[c].inCalls[1].result # calls[c].inCalls[1].incomingMsg
        /\ calls[c].inCalls[2].result # calls[c].inCalls[2].incomingMsg

\* The envelope the incoming phase of a call ended with.
FinalEnvelope(call) ==
    IF call.inCalls # <<>> THEN Last(call.inCalls).result
    ELSE IF call.outCalls # <<>> THEN Last(call.outCalls).result
    ELSE Undefined

\* C5: a resolved call resolved to the data of the envelope its last incoming
\* handler returned, or, having invoked no incoming handler, to the data of the
\* response envelope.
C5_ResolvesToFinalData ==
    \A c \in Calls :
        calls[c].pc = "resolved" =>
            /\ Truthy(FinalEnvelope(calls[c]))
            /\ calls[c].value = FinalEnvelope(calls[c]).data

\* C5 witness: a call resolved to the data of its last incoming handler's
\* envelope, which is not the data of the response.
C5_Witness ==
    \E c \in Calls :
        /\ calls[c].pc = "resolved"
        /\ calls[c].inCalls # <<>>
        /\ calls[c].value = Last(calls[c].inCalls).result.data
        /\ calls[c].value # Last(calls[c].outCalls).result.data

\* C6, as claimed: when an incoming handler throws E, it is the last incoming
\* handler the call invokes and the call rejects with E.
C6_IncomingThrowPropagates ==
    \A c \in Calls :
        \A k \in 1..Len(calls[c].inCalls) :
            calls[c].inCalls[k].state = "threw" =>
                /\ k = Len(calls[c].inCalls)
                /\ calls[c].pc = "rejected"
                /\ calls[c].error = calls[c].inCalls[k].thrown

\* C10: with calls interleaving, every handler invocation of a call is made
\* with the call's own outgoing envelope, the incoming envelope handed along
\* comes from the call's own response and its own handlers' results, and a
\* resolved call resolved to its own final payload.
C10_CallsOwnTheirEnvelopes ==
    /\ \A c \in Calls :
           /\ \A k \in 1..Len(calls[c].outCalls) :
                  calls[c].outCalls[k].outgoingMsg = calls[c].outgoingMsg
           /\ \A k \in 1..Len(calls[c].inCalls) :
                  /\ calls[c].inCalls[k].outgoingMsg = calls[c].outgoingMsg
                  /\ calls[c].outCalls # <<>>
                  /\ calls[c].inCalls[k].incomingMsg =
                         IF k = 1 THEN Last(calls[c].outCalls).result
                         ELSE calls[c].inCalls[k - 1].result
           /\ calls[c].pc = "resolved" =>
                  calls[c].value = FinalEnvelope(calls[c]).data

\* C10 witness: two calls with different outgoing envelopes are in their
\* incoming phases at once, the earlier one behind the later one, with different
\* incoming envelopes in flight.
C10_Witness ==
    \E c1, c2 \in Calls :
        /\ c1 < c2
        /\ calls[c1].outgoingMsg # calls[c2].outgoingMsg
        /\ calls[c1].pc = "incoming" /\ calls[c1].i = 1
        /\ calls[c2].pc = "incoming" /\ calls[c2].i = 2
        /\ calls[c1].incomingMsg # calls[c2].incomingMsg

Events == 1..Len(messageEvents)

\* The emitIncomingMessageAsync activations a "message" event started.
RunsOf(e) == {r \in Runs : runs[r].event = e}

\* C7: the registry holds no listener twice, the forwarding handler is subscribed
\* once to every registered listener and not at all to any other, and every
\* "message" event of a registered listener started exactly one incoming-phase
\* run.
C7_ListenersSubscribedOnce ==
    /\ \A j, k \in 1..Len(listeners) : j # k => listeners[j] # listeners[k]
    /\ \A l \in Listeners : subscriptions[l] = IF l \in Range(listeners) THEN 1 ELSE 0
    /\ \A e \in Events : messageEvents[e].registered => Cardinality(RunsOf(e)) = 1

\* C7 witness: both listeners are registered, the second one first, and each
\* raised a "message" event that started one run.
C7_Witness ==
    /\ listeners = <<2, 1>>
    /\ Len(messageEvents) = 2
    /\ messageEvents[1].listener # messageEvents[2].listener
    /\ \A e \in Events : messageEvents[e].registered /\ Cardinality(RunsOf(e)) = 1

\* C8: a "message" event of a listener that is not registered when it raises it
\* starts no incoming-phase run (no incoming handler is invoked and no "data" is
\* emitted for it); and removeListener of a listener that is not registered
\* leaves the registry and the subscriptions as they are.
C8_RemovedListenerIsNotHeard ==
    [][/\ \A e \in 1..Len(messageEvents') :
              ~messageEvents'[e].registered =>
                  {r \in 1..Len(runs') : runs'[r].event = e} = {}
       /\ \A l \in Listeners :
              (l \notin Range(listeners) /\ removeListener(l))
              => UNCHANGED <<listeners, subscriptions>>]_vars

\* C8 witness: a listener raised "message" twice; the first event, raised while it
\* was registered, started a run; the second, raised after its removal, started
\* none, with an incoming handler registered.
C8_Witness ==
    \E e1, e2 \in Events :
        /\ e1 < e2
        /\ messageEvents[e1].listener = messageEvents[e2].listener
        /\ messageEvents[e1].registered /\ RunsOf(e1) # {}
        /\ ~messageEvents[e2].registered /\ RunsOf(e2) = {}
        /\ messageEvents[e2].listener \notin Range(listeners)
        /\ incomingPipe # <<>>

\* The envelope an unsolicited run ended with.
FinalUnsolicited(run, events) ==
    IF run.inCalls # <<>> THEN Last(run.inCalls).result
    ELSE events[run.event].message

\* The incoming handler invocations of an unsolicited run, against the handler
\* sequence: in registration order, each after the one before it returned, with
\* undefined as the outgoing envelope and with the event's envelope (k = 1) or
\* the envelope the invocation before it returned.
UnsolicitedChain(run, pipe, events) ==
    /\ Len(run.inCalls) <= Len(pipe)
    /\ \A k \in 1..Len(run.inCalls) :
           /\ run.inCalls[k].handler = pipe[k]
           /\ run.inCalls[k].outgoingMsg = Undefined
           /\ k < Len(run.inCalls) => run.inCalls[k].state = "returned"
           /\ run.inCalls[k].incomingMsg =
                  IF k = 1 THEN events[run.event].message ELSE run.inCalls[k - 1].result

\* C9: an unsolicited run invokes the incoming handlers in registration order
\* with no outgoing envelope, each with the output of the one before; when it
\* resolves it has invoked every registered incoming handler and emitted "data"
\* once, with the data of the last handler's envelope; otherwise it has emitted
\* nothing.
C9_UnsolicitedDelivery ==
    [][\A r \in 1..Len(runs') :
           /\ messageEvents'[runs'[r].event].registered
           /\ UnsolicitedChain(runs'[r], incomingPipe', messageEvents')
           /\ IF runs'[r].pc = "resolved"
              THEN /\ Truthy(FinalUnsolicited(runs'[r], messageEvents'))
                   /\ runs'[r].emitted = <<FinalUnsolicited(runs'[r], messageEvents').data>>
              ELSE runs'[r].emitted = <<>>
           /\ ((r > Len(runs) \/ runs[r].pc # "resolved") /\ runs'[r].pc = "resolved")
              => Len(runs'[r].inCalls) = Len(incomingPipe')]_vars

\* C9 witness: a run resolved after three incoming handlers and emitted the data
\* of the third one's envelope, which is not the data the listener sent.
C9_Witness ==
    \E r \in Runs :
        /\ runs[r].pc = "resolved"
        /\ Len(runs[r].inCalls) = 3
        /\ runs[r].emitted = <<runs[r].inCalls[3].result.data>>
        /\ runs[r].inCalls[3].result # runs[r].inCalls[2].result
        /\ runs[r].inCalls[3].result # messageEvents[runs[r].event].message

\* The envelope handed to the k-th incoming handler of a call was produced by:
\* the winning outgoing handler (k = 1) or the incoming handler before it.
ProducedBy(call, k) ==
    IF k = 1 THEN Last(call.outCalls).result ELSE call.inCalls[k - 1].result

\* C11, as claimed: in every call that reaches the incoming phase, the response
\* envelope and every envelope handed to or returned by an incoming handler
\* carries the operationId of the call's outgoing envelope.
C11_ResponseSharesOperationId ==
    \A c \in Calls :
        \A k \in 1..Len(calls[c].inCalls) :
            /\ Truthy(calls[c].inCalls[k].incomingMsg) =>
                   calls[c].inCalls[k].incomingMsg.operationId
                       = calls[c].outgoingMsg.operationId
            /\ Responded(calls[c].inCalls[k]) =>
                   calls[c].inCalls[k].result.operationId
                       = calls[c].outgoingMsg.operationId

\* C11, amended: the operationId generated for a call is carried by the call's
\* outgoing envelope, which every outgoing and incoming handler of the call
\* receives; the response and its transformations reach the incoming handlers
\* as their producers returned them, operationId included (the engine neither
\* copies nor checks it), and a call whose handlers do not echo the operationId is
\* dispatched and resolved all the same.
C11_OperationIdIsTheHandlersToEcho ==
    \A c \in Calls :
        /\ calls[c].outgoingMsg.operationId # 0
        /\ \A k \in 1..Len(calls[c].outCalls) :
               calls[c].outCalls[k].outgoingMsg.operationId
                   = calls[c].outgoingMsg.operationId
        /\ \A k \in 1..Len(calls[c].inCalls) :
               /\ calls[c].inCalls[k].outgoingMsg.operationId
                      = calls[c].outgoingMsg.operationId
               /\ calls[c].inCalls[k].incomingMsg = ProducedBy(calls[c], k)
        /\ (calls[c].pc = "resolved" /\ calls[c].inCalls # <<>>) =>
               calls[c].value = Last(calls[c].inCalls).result.data

\* C11 witness: a call resolved whose response echoed the call's operationId,
\* whose first incoming handler returned an envelope without it, and whose
\* second incoming handler was handed that envelope.
C11_Witness ==
    \E c \in Calls :
        /\ calls[c].pc = "resolved"
        /\ Len(calls[c].inCalls) = 2
        /\ calls[c].inCalls[1].incomingMsg.operationId = calls[c].outgoingMsg.operationId
        /\ Truthy(calls[c].inCalls[2].incomingMsg)
        /\ calls[c].inCalls[2].incomingMsg.operationId = 0
        /\ calls[c].inCalls[2].incomingMsg.operationId # calls[c].outgoingMsg.operationId

\* C12: every outgoing envelope has the pipeline's id as its source; the ids and
\* operationIds of the outgoing envelopes are identifiers generated for them:
\* none is the pipeline's id, none is the id or operationId of another call's
\* envelope, and an envelope's id is not its operationId.
C12_FreshIdentifiers ==
    /\ \A c \in Calls :
           /\ calls[c].outgoingMsg.source = id
           /\ calls[c].outgoingMsg.id # id
           /\ calls[c].outgoingMsg.operationId # id
           /\ calls[c].outgoingMsg.id # calls[c].outgoingMsg.operationId
    /\ \A c1, c2 \in Calls :
           c1 # c2 =>
               {calls[c1].outgoingMsg.id, calls[c1].outgoingMsg.operationId}
                   \cap {calls[c2].outgoingMsg.id, calls[c2].outgoingMsg.operationId} = {}

\* C12 witness: two calls with the same data, made at the same time with the same
\* template, hence with identical payloads.
C12_Witness ==
    \E c1, c2 \in Calls :
        /\ c1 # c2
        /\ calls[c1].data = calls[c2].data
        /\ calls[c1].outgoingMsg.data = calls[c2].outgoingMsg.data
        /\ calls[c1].outgoingMsg.timestamp = calls[c2].outgoingMsg.timestamp
        /\ calls[c1].outgoingMsg.id # calls[c2].outgoingMsg.id

\* C13, as claimed: two calls with identical data have outgoing envelopes with
\* different timestamps.
C13_DistinctTimestamps ==
    \A c1, c2 \in Calls :
        (c1 # c2 /\ calls[c1].data = calls[c2].data) =>
            calls[c1].outgoingMsg.timestamp # calls[c2].outgoingMsg.timestamp

\* C13, amended: the timestamp of a call's outgoing envelope is the reading of
\* the clock when the call is made, and stays what it is; calls made at the same
\* reading, with identical data or not, get equal timestamps.
C13_TimestampIsTheClockReading ==
    [][/\ Len(calls') > Len(calls) =>
              calls'[Len(calls')].outgoingMsg.timestamp = now
       /\ \A c \in Calls :
              calls'[c].outgoingMsg.timestamp = calls[c].outgoingMsg.timestamp]_vars

\* C13 witness: two calls with identical data, made at the same clock reading
\* after the clock advanced, with equal timestamps.
C13_Witness ==
    \E c1, c2 \in Calls :
        /\ c1 # c2
        /\ calls[c1].data = calls[c2].data
        /\ calls[c1].outgoingMsg.timestamp = now
        /\ calls[c2].outgoingMsg.timestamp = now
        /\ now > 0

\* The value an object has for one of its keys.
ValueOf(obj, key) == (CHOOSE p \in obj.fields : p[1] = key)[2]

\* C14: the payload of the outgoing envelope a call builds has the keys of the
\* caller's data and of the template (if one is set) and no others, each once;
\* for each key the value is the caller's if the caller's data has the key and
\* the template's otherwise; building it changes neither the template nor the
\* caller's data.
C14_PayloadIsShallowMerge ==
    [][Len(calls') > Len(calls) =>
           LET call == calls'[Len(calls')]
               payload == call.outgoingMsg.data
               template == outgoingDataTemplate
               templateKeys == IF template = Undefined THEN {} ELSE KeysOf(template)
           IN  /\ call.data \in CallerData
               /\ KeysOf(payload) = KeysOf(call.data) \cup templateKeys
               /\ Cardinality(payload.fields) = Cardinality(KeysOf(payload))
               /\ \A key \in KeysOf(payload) :
                      ValueOf(payload, key) =
                          IF key \in KeysOf(call.data) THEN ValueOf(call.data, key)
                          ELSE ValueOf(template, key)
               /\ outgoingDataTemplate' = outgoingDataTemplate]_vars

\* C14 witness: with the template {a: 1, b: 2} set, a call with the data
\* {b: 3, c: 4} built the payload {a: 1, b: 3, c: 4}, and the template is still
\* {a: 1, b: 2}.
C14_Witness ==
    \E c \in Calls :
        /\ outgoingDataTemplate = Object({<<"a", 1>>, <<"b", 2>>})
        /\ calls[c].data = Object({<<"b", 3>>, <<"c", 4>>})
        /\ calls[c].outgoingMsg.data = Object({<<"a", 1>>, <<"b", 3>>, <<"c", 4>>})

\* The caller writes to the returned array in this step.
CallerWrites ==
    \/ \E listener \in Listeners : ReturnedPush(listener)
    \/ \E index \in 1..(NumListeners + 1) : ReturnedSplice(index)
    \/ ReturnedReverse

\* What addListener(l), removeListener(l) and getListeners() would do next: it
\* is a function of the registry and of the subscriptions.
RegistryBehaviour ==
    [l \in Listeners |-> [index |-> findIndex(l), subscribed |-> subscriptions[l]]]

\* C15: getListeners returns an array with the registered listeners in the
\* registry's (registration) order and changes nothing; pushing
\* to, splicing or reversing the returned array changes neither the registry
\* nor the subscriptions nor what later addListener, removeListener and
\* getListeners calls do, and the registry stays duplicate-free with one
\* subscription per registered listener.
C15_GetListenersReturnsACopy ==
    [][/\ getListeners =>
              /\ snapshot'.items = listeners
              /\ UNCHANGED <<listeners, subscriptions>>
       /\ CallerWrites =>
              /\ UNCHANGED <<listeners, subscriptions>>
              /\ RegistryBehaviour' = RegistryBehaviour
       /\ \A j, k \in 1..Len(listeners') : j # k => listeners'[j] # listeners'[k]
       /\ \A l \in Listeners :
              subscriptions'[l] = IF l \in Range(listeners') THEN 1 ELSE 0]_vars

\* C15 witness: with listeners 1 and 2 registered in this order, the returned
\* array was spliced and pushed to by its caller and now holds listener 2 twice.
C15_Witness ==
    /\ listeners = <<1, 2>>
    /\ snapshot # Undefined
    /\ snapshot.items = <<2, 2>>
    /\ subscriptions[1] = 1 /\ subscriptions[2] = 1

\* C16: a disposeAsync call changes nothing of the pipeline: not the handler
\* sequences, the registry or the subscriptions, nor any call or delivery in
\* flight; and whether or not the pipeline was disposed, a "message" event of a
\* registered listener starts one incoming-phase run, a run whose handlers
\* all return envelopes resolves having emitted "data" with the final payload,
\* and a pipeAsync call invokes the first outgoing handler.
C16_DisposalChangesNothing ==
    [][/\ disposals' # disposals =>
              UNCHANGED <<id, log, outgoingDataTemplate, outgoingPipe, incomingPipe,
                          listeners, subscriptions, calls, runs, messageEvents>>
       /\ Len(messageEvents') > Len(messageEvents) =>
              LET e == Len(messageEvents')
              IN  messageEvents'[e].registered =>
                      Cardinality({r \in 1..Len(runs') : runs'[r].event = e}) = 1
       /\ \A r \in 1..Len(runs') :
              (/\ runs'[r].pc # "incoming"
               /\ \A k \in 1..Len(runs'[r].inCalls) : Responded(runs'[r].inCalls[k]))
              => /\ runs'[r].pc = "resolved"
                 /\ runs'[r].emitted = <<FinalUnsolicited(runs'[r], messageEvents').data>>
       /\ Len(calls') > Len(calls) =>
              LET call == calls'[Len(calls')]
              IN  IF outgoingPipe = <<>>
                  THEN call.pc = "rejected" /\ call.error = NoOutgoingHandler
                  ELSE /\ call.pc = "outgoing"
                       /\ Len(call.outCalls) = 1
                       /\ call.outCalls[1].handler = outgoingPipe[1]
                       /\ call.outCalls[1].outgoingMsg = call.outgoingMsg]_vars

\* C16 witness: after two disposals, a registered listener raised "message", the
\* run invoked the incoming handler and emitted "data"; and a call started after
\* the two disposals invoked the outgoing handler and resolved.
C16_Witness ==
    /\ disposals >= 2
    /\ \E r \in Runs :
           /\ messageEvents[runs[r].event].disposals >= 2
           /\ messageEvents[runs[r].event].registered
           /\ runs[r].inCalls # <<>>
           /\ runs[r].pc = "resolved"
           /\ runs[r].emitted # <<>>
    /\ \E c \in Calls :
           /\ calls[c].disposals >= 2
           /\ calls[c].outCalls # <<>>
           /\ calls[c].pc = "resolved"
    /\ listeners # <<>>
    /\ \A l \in Range(listeners) : subscriptions[l] = 1

\* C17, as claimed: when an incoming handler throws E in an unsolicited run, it
\* is the last incoming handler the run invokes, the run emits no "data", and
\* its promise rejects with E.
C17_UnsolicitedThrowRejects ==
    \A r \in Runs :
        \A k \in 1..Len(runs[r].inCalls) :
            runs[r].inCalls[k].state = "threw" =>
                /\ k = Len(runs[r].inCalls)
                /\ runs[r].emitted = <<>>
                /\ runs[r].pc = "rejected"
                /\ runs[r].error = runs[r].inCalls[k].thrown

Completed == "Incoming message processing completed."

ErrorLines(frame) == {k \in 1..Len(frame.diags) : frame.diags[k].severity = "error"}

\* C18, as claimed: with a log sink, the first line a call logs is the pre-send
\* line for its outgoing envelope, logged before any outgoing handler is
\* invoked; the second is the line for the response, logged after every
\* outgoing invocation and before any incoming one; a resolved call logged the
\* completion line last, after every incoming invocation; and a rejected call
\* logged exactly one error line, as its last line, and no completion line.
C18_DiagnosticsInOrder ==
    \A c \in Calls :
        log =>
            LET call == calls[c]
            IN  /\ Len(call.diags) >= 1
                /\ call.diags[1].severity = "info"
                /\ call.diags[1].id = call.outgoingMsg.id
                /\ \A k \in 1..Len(call.outCalls) : call.outCalls[k].logged = 1
                /\ call.inCalls # <<>> =>
                       /\ Len(call.diags) >= 2
                       /\ call.diags[2].severity = "info"
                       /\ call.diags[2].id = Last(call.outCalls).result.id
                       /\ \A k \in 1..Len(call.inCalls) : call.inCalls[k].logged = 2
                /\ call.pc = "resolved" =>
                       /\ Len(call.diags) = 3
                       /\ call.diags[3].severity = "info"
                       /\ call.diags[3].text = Completed
                /\ call.pc = "rejected" =>
                       /\ Cardinality(ErrorLines(call)) = 1
                       /\ call.diags[Len(call.diags)].severity = "error"
                       /\ \A k \in 1..Len(call.diags) : call.diags[k].text # Completed

\* No handler is invoked twice by the same activation.
NoRetry(invocations) ==
    \A j, k \in 1..Len(invocations) : j # k => invocations[j].handler # invocations[k].handler

\* C19: with handlers that settle and handler sequences left alone, every
\* pipeAsync call eventually settles; once settled it stays as it settled; a
\* resolved call obtained a response and ran every incoming handler, each of
\* which returned; and no call invokes a handler twice.
C19_EveryCallSettlesOnce ==
    /\ \A c \in 1..MaxCalls :
           (c <= Len(calls)) ~> (c <= Len(calls) /\ Settled(calls[c]))
    /\ [][\A c \in Calls : Settled(calls[c]) => calls'[c] = calls[c]]_vars
    /\ [](\A c \in Calls :
              /\ NoRetry(calls[c].outCalls)
              /\ NoRetry(calls[c].inCalls)
              /\ calls[c].pc = "resolved" =>
                     /\ ObtainedResponse(calls[c])
                     /\ Len(calls[c].inCalls) = Len(incomingPipe)
                     /\ \A k \in 1..Len(calls[c].inCalls) :
                            calls[c].inCalls[k].state = "returned")

\* C19 witness: every call the bound allows was started and has settled, one of
\* them resolved after both incoming handlers and one rejected.
C19_Witness ==
    /\ Len(calls) = MaxCalls
    /\ \A c \in Calls : Settled(calls[c])
    /\ \E c \in Calls : calls[c].pc = "resolved" /\ Len(calls[c].inCalls) = 2
    /\ \E c \in Calls : calls[c].pc = "rejected"

\* The outcome of an activation, as its caller or a "data" subscriber sees it.
Outcome(resolved, value, error) == [resolved |-> resolved, value |-> value, error |-> error]

OutcomeOfCall(call) == Outcome(call.pc = "resolved", call.value, call.error)

OutcomeOfRun(run) ==
    Outcome(run.pc = "resolved",
            IF run.emitted = <<>> THEN Undefined ELSE run.emitted[1], run.error)

\* What the handlers' results make of a settled activation on a pipeline
\* without a log sink: the error of the handler that threw; the unhandled error
\* when no outgoing handler responded; the TypeError of reading the data of an
\* undefined final envelope; and else the data of the final envelope.
OutcomeWithoutLog(outCalls, inCalls, final, unhandled) ==
    IF outCalls # <<>> /\ Last(outCalls).state = "threw"
    THEN Outcome(FALSE, Undefined, Last(outCalls).thrown)
    ELSE IF unhandled THEN Outcome(FALSE, Undefined, NoOutgoingHandler)
    ELSE IF inCalls # <<>> /\ Last(inCalls).state = "threw"
    THEN Outcome(FALSE, Undefined, Last(inCalls).thrown)
    ELSE IF ~Truthy(final) THEN Outcome(FALSE, Undefined, TypeError)
    ELSE Outcome(TRUE, final.data, "")

\* C20, as claimed: the outcome of a settled pipeAsync call or unsolicited run
\* is what its handlers' results make of it on a pipeline without a log sink,
\* whether or not the pipeline has one; and it has invoked the same handlers:
\* every incoming handler unless a handler threw or no response was obtained.
C20_LoggingIsObservational ==
    /\ \A c \in Calls :
           Settled(calls[c]) =>
               /\ OutcomeOfCall(calls[c]) =
                      OutcomeWithoutLog(calls[c].outCalls, calls[c].inCalls,
                                        FinalEnvelope(calls[c]),
                                        ~ObtainedResponse(calls[c]))
               /\ (ObtainedResponse(calls[c]) /\ NoHandlerThrew(calls[c])) =>
                      Len(calls[c].inCalls) = Len(incomingPipe)
    /\ \A r \in Runs :
           Settled(runs[r]) =>
               /\ OutcomeOfRun(runs[r]) =
                      OutcomeWithoutLog(<<>>, runs[r].inCalls,
                                        FinalUnsolicited(runs[r], messageEvents), FALSE)
               /\ (\A k \in 1..Len(runs[r].inCalls) : runs[r].inCalls[k].state # "threw") =>
                      Len(runs[r].inCalls) = Len(incomingPipe)
====
